---- MODULE Spec2Model ----
(***************************************************************************)
(* A model of risp, a small Lisp interpreter: the object model and the     *)
(* chained environments (src/src/object.rs), the evaluator                 *)
(* (src/src/evaluator.rs) and the reader (src/src/reader.rs, over the      *)
(* pair objects of src/src/main.rs).                                       *)
(*                                                                         *)
(* Integers are drawn from small ranges on which i64 arithmetic does not   *)
(* overflow, so +, - and * are the mathematical operations.                *)
(***************************************************************************)
EXTENDS Integers, Sequences, FiniteSets, TLC

VARIABLES
    heap,   \* the environment frames: heap[i] is frame i (an EnvRef is an index)
    call,   \* the last Environment / native / read operation and what it returned
    hist    \* the top-level forms evaluated so far, each with its result and log

vars == <<heap, call, hist>>

---------------------------------------------------------------------------
(* Bounds of the model. *)

MaxFrames == 3      \* frames in the heap under EnvSpec
MaxInt == 2         \* integers are drawn from -MaxInt .. MaxInt
MaxArgs == 3        \* arguments handed to a native procedure under NativeSpec
MaxSteps == 3       \* top-level forms evaluated under Spec
MaxDepth == 12      \* nesting of eval calls (the stack)

---------------------------------------------------------------------------
(* Objects: src/src/object.rs, enum Object and enum Function. *)

Nil == [t |-> "Nil"]
Integer(n) == [t |-> "Integer", v |-> n]
Symbol(s) == [t |-> "Symbol", name |-> s]
List(items) == [t |-> "List", elems |-> items]
Error(m) == [t |-> "Error", msg |-> m]
Native(n) == [k |-> "Native", name |-> n]
Lambda(parameters, body, env) ==
    [k |-> "Lambda", params |-> parameters, body |-> body, env |-> env]
Callable(f) == [t |-> "Callable", fn |-> f]

new_error(message) == Error(message)

\* Result<Object, Object>; a panic of the thread is the third outcome.
Ok(o) == [st |-> "Ok", val |-> o]
Err(o) == [st |-> "Err", val |-> o]
Panic(m) == [st |-> "Panic", val |-> Error(m)]

\* Option<bool>: "None" when the object is no symbol.
has_symbol_value(o, s) ==
    IF o.t = "Symbol" THEN (IF o.name = s THEN "SomeTrue" ELSE "SomeFalse")
    ELSE "None"

---------------------------------------------------------------------------
(* Environments: src/src/object.rs, struct Environment. A frame is        *)
(* [parent, entries]; parent 0 is None; entries is a function whose        *)
(* domain is the set of names the frame binds (the HashMap).               *)

NativeNames == {"+", "-", "*", "list", "cons", "car"}

\* HashMap::insert
Insert(entries, key, obj) ==
    [n \in (DOMAIN entries) \cup {key} |-> IF n = key THEN obj ELSE entries[n]]

\* Environment::new(): the root frame, holding the native procedures.
NewEnvironment ==
    [parent |-> 0, entries |-> [n \in NativeNames |-> Callable(Native(n))]]

\* Environment::new_child(parent): the heap with the new frame appended;
\* the new EnvRef is Len(h) + 1.
new_child(h, parent) ==
    Append(h, [parent |-> parent, entries |-> [n \in {} |-> Nil]])

\* A define that overwrites the binding of the nearest frame on the parent
\* chain that already binds the key, and binds locally only when none does.
RECURSIVE defineOuter(_, _, _, _)
defineOuter(h, f, key, obj) ==
    LET RECURSIVE binder(_)
        binder(g) == IF key \in DOMAIN h[g].entries THEN g
                     ELSE IF h[g].parent = 0 THEN f
                     ELSE binder(h[g].parent)
    IN  [h EXCEPT ![binder(f)].entries = Insert(@, key, obj)]

\* Environment::define(&mut self, key, obj) on frame f: the heap afterwards.
\* (It always returns Ok(Nil).)
define(h, f, key, obj) ==
    [h EXCEPT ![f].entries = Insert(@, key, obj)]

\* A get that asks the parent chain first.
RECURSIVE getOuterFirst(_, _, _)
getOuterFirst(h, f, key) ==
    LET up == IF h[f].parent = 0 THEN Nil ELSE getOuterFirst(h, h[f].parent, key)
    IN  IF up # Nil THEN up
        ELSE IF key \in DOMAIN h[f].entries THEN h[f].entries[key] ELSE Nil

\* Environment::get(&self, key) on frame f.
RECURSIVE get(_, _, _)
get(h, f, key) ==
    IF key \in DOMAIN h[f].entries THEN h[f].entries[key]
    ELSE IF h[f].parent # 0 THEN get(h, h[f].parent, key)
    ELSE Nil

---------------------------------------------------------------------------
(* The native procedures: src/src/object.rs, plus .. car. Each takes the   *)
(* evaluated arguments (the EnvRef it is handed is unused) and returns a   *)
(* Result.                                                                 *)

\* plus: the loop over args, sum the accumulator.
RECURSIVE plusLoop(_, _, _)
plusLoop(args, i, sum) ==
    IF i > Len(args) THEN Ok(Integer(sum))
    ELSE IF args[i].t = "Integer" THEN plusLoop(args, i + 1, sum + args[i].v)
    ELSE Ok(Nil)

plus(args) == plusLoop(args, 1, 0)

\* minus: the loop over the arguments after the first.
RECURSIVE minusLoop(_, _, _)
minusLoop(args, i, sum) ==
    IF i > Len(args) THEN Ok(Integer(sum))
    ELSE IF args[i].t = "Integer" THEN minusLoop(args, i + 1, sum - args[i].v)
    ELSE Err(Nil)

\* A minus that folds from the right: a1 - (a2 - (a3 - ...)).
RECURSIVE rightDifference(_, _)
rightDifference(args, i) ==
    IF i = Len(args) THEN args[i].v ELSE args[i].v - rightDifference(args, i + 1)

minusRightFold(args) ==
    IF Len(args) < 1 THEN Err(new_error("not enough arguments"))
    ELSE IF \E i \in 1..Len(args) : args[i].t # "Integer"
    THEN Err(new_error("argument has wrong type"))
    ELSE Ok(Integer(rightDifference(args, 1)))

minus(args) ==
    IF Len(args) < 2 THEN Err(new_error("not enough arguments"))
    ELSE IF args[1].t # "Integer" THEN Err(new_error("argument has wrong type"))
    ELSE minusLoop(args, 2, args[1].v)

\* multiply: the loop over args.
RECURSIVE multiplyLoop(_, _, _)
multiplyLoop(args, i, sum) ==
    IF i > Len(args) THEN Ok(Integer(sum))
    ELSE IF args[i].t = "Integer" THEN multiplyLoop(args, i + 1, sum * args[i].v)
    ELSE Err(Nil)

multiply(args) == multiplyLoop(args, 1, 1)

list(args) == Ok(List(args))

cons(args) ==
    IF Len(args) # 2 THEN Err(new_error("wrong number of arguments"))
    ELSE Ok(List(args))

car(args) ==
    IF Len(args) # 1 THEN Err(new_error("wrong number of arguments"))
    ELSE IF args[1].t # "List" THEN Err(new_error("argument has wrong type"))
    ELSE IF args[1].elems = <<>> THEN Err(new_error("empty list"))
    ELSE Ok(args[1].elems[1])

\* The call through the function pointer of Function::Native.
builtin(name, args) ==
    CASE name = "+" -> plus(args)
      [] name = "-" -> minus(args)
      [] name = "*" -> multiply(args)
      [] name = "list" -> list(args)
      [] name = "cons" -> cons(args)
      [] name = "car" -> car(args)

---------------------------------------------------------------------------
(* The evaluator: src/src/evaluator.rs. An evaluation returns              *)
(*   [st, val, heap, log]                                                  *)
(* st/val the Result (or the panic that ended it), heap the frames         *)
(* afterwards, log the steps it took, in order:                            *)
(*   [ev |-> "eval", env, exp]         eval entered                        *)
(*   [ev |-> "lambda", env, fn]        make_lambda built closure fn        *)
(*   [ev |-> "define", env, name, val] make_definition bound name          *)
(*   [ev |-> "apply", env, proc, args] apply entered                       *)
(*   [ev |-> "frame", frame, parent]   apply_lambda created a child frame  *)
(*   [ev |-> "bind", frame, name, val] apply_lambda bound a parameter      *)
(*   [ev |-> "return", env, exp, res]  eval returned res (no panic)        *)
(* d is the stack depth left.                                              *)

Out(r, h, log) == [st |-> r.st, val |-> r.val, heap |-> h, log |-> log]

StackOverflow == [st |-> "StackOverflow", val |-> Nil]

is_lambda(exps) ==
    IF exps = <<>> THEN FALSE ELSE has_symbol_value(exps[1], "lambda") = "SomeTrue"

is_definition(exps) ==
    IF exps = <<>> THEN FALSE ELSE has_symbol_value(exps[1], "define") = "SomeTrue"

\* A make_lambda that captures the root environment.
make_lambdaRoot(exps, env, h) ==
    IF Len(exps) < 2 THEN Out(Panic("index out of bounds"), h, <<>>)
    ELSE IF exps[2].t # "List"
    THEN Out(Err(new_error("arguments are not a list")), h, <<>>)
    ELSE IF Len(exps) < 3 THEN Out(Panic("index out of bounds"), h, <<>>)
    ELSE LET lambda == Callable(Lambda(exps[2].elems, <<exps[3]>>, 1))
         IN  Out(Ok(lambda), h, <<[ev |-> "lambda", env |-> env, fn |-> lambda.fn]>>)

make_lambda(exps, env, h) ==
    IF Len(exps) < 2 THEN Out(Panic("index out of bounds"), h, <<>>)
    ELSE IF exps[2].t # "List"
    THEN Out(Err(new_error("arguments are not a list")), h, <<>>)
    ELSE IF Len(exps) < 3 THEN Out(Panic("index out of bounds"), h, <<>>)
    ELSE LET lambda == Callable(Lambda(exps[2].elems, <<exps[3]>>, env))
         IN  Out(Ok(lambda), h, <<[ev |-> "lambda", env |-> env, fn |-> lambda.fn]>>)

RECURSIVE eval(_, _, _, _)
RECURSIVE evalArgs(_, _, _, _, _, _, _)
RECURSIVE make_definition(_, _, _, _)
RECURSIVE bindParameters(_, _, _, _, _, _)
RECURSIVE apply_lambda(_, _, _, _)
RECURSIVE apply(_, _, _, _, _)

\* A bindParameters that binds in the captured environment, the parent of
\* frame f, instead of in f.
RECURSIVE bindParametersCaptured(_, _, _, _, _, _)
bindParametersCaptured(parameters, args, i, f, h, log) ==
    IF i > Len(parameters) THEN Out(Ok(Nil), h, log)
    ELSE IF parameters[i].t # "Symbol"
    THEN bindParametersCaptured(parameters, args, i + 1, f, h, log)
    ELSE IF i > Len(args) THEN Out(Panic("index out of bounds"), h, log)
    ELSE bindParametersCaptured(parameters, args, i + 1, f,
             define(h, h[f].parent, parameters[i].name, args[i]),
             Append(log, [ev |-> "bind", frame |-> h[f].parent,
                          name |-> parameters[i].name, val |-> args[i]]))

\* apply_lambda, the loop over the parameters from index i: a Symbol is
\* bound to args[i] in frame f (a panic when args is too short), any other
\* parameter object is skipped.
bindParameters(parameters, args, i, f, h, log) ==
    IF i > Len(parameters) THEN Out(Ok(Nil), h, log)
    ELSE IF parameters[i].t # "Symbol"
    THEN bindParameters(parameters, args, i + 1, f, h, log)
    ELSE IF i > Len(args) THEN Out(Panic("index out of bounds"), h, log)
    ELSE bindParameters(parameters, args, i + 1, f,
             define(h, f, parameters[i].name, args[i]),
             Append(log, [ev |-> "bind", frame |-> f,
                          name |-> parameters[i].name, val |-> args[i]]))

apply_lambda(lambda, args, h, d) ==
    IF lambda.k # "Lambda"
    THEN Out(Err(new_error("lambda is not a Function::Lambda: <native>")), h, <<>>)
    ELSE LET application_env == Len(h) + 1
             bound == bindParameters(lambda.params, args, 1, application_env,
                          new_child(h, lambda.env),
                          <<[ev |-> "frame", frame |-> application_env,
                             parent |-> lambda.env]>>)
         IN  IF bound.st # "Ok" THEN bound
             ELSE LET r == eval(lambda.body[1], application_env, bound.heap, d)
                  IN  Out(r, r.heap, bound.log \o r.log)

\* An apply that answers Nil for a procedure that is no Callable.
applyLenient(proc, args, env, h, d) ==
    LET entered == <<[ev |-> "apply", env |-> env, proc |-> proc, args |-> args]>>
    IN  IF proc.t = "Callable"
        THEN IF proc.fn.k = "Native"
             THEN Out(builtin(proc.fn.name, args), h, entered)
             ELSE LET r == apply_lambda(proc.fn, args, h, d)
                  IN  Out(r, r.heap, entered \o r.log)
        ELSE Out(Ok(Nil), h, entered)

apply(proc, args, env, h, d) ==
    LET entered == <<[ev |-> "apply", env |-> env, proc |-> proc, args |-> args]>>
    IN  IF proc.t = "Callable"
        THEN IF proc.fn.k = "Native"
             THEN Out(builtin(proc.fn.name, args), h, entered)
             ELSE LET r == apply_lambda(proc.fn, args, h, d)
                  IN  Out(r, r.heap, entered \o r.log)
        ELSE Out(Err(new_error("cannot call non-function")), h, entered)

\* A make_definition that binds the expression itself, unevaluated.
make_definitionUnevaluated(exps, env, h, d) ==
    IF Len(exps) < 2 THEN Out(Panic("index out of bounds"), h, <<>>)
    ELSE IF exps[2].t # "Symbol"
    THEN Out(Err(new_error("argument has wrong type")), h, <<>>)
    ELSE IF Len(exps) < 3 THEN Out(Panic("index out of bounds"), h, <<>>)
    ELSE Out(Ok(Nil), define(h, env, exps[2].name, exps[3]),
             <<[ev |-> "define", env |-> env, name |-> exps[2].name,
                val |-> exps[3]]>>)

make_definition(exps, env, h, d) ==
    IF Len(exps) < 2 THEN Out(Panic("index out of bounds"), h, <<>>)
    ELSE IF exps[2].t # "Symbol"
    THEN Out(Err(new_error("argument has wrong type")), h, <<>>)
    ELSE IF Len(exps) < 3 THEN Out(Panic("index out of bounds"), h, <<>>)
    ELSE LET value == eval(exps[3], env, h, d)
         IN  IF value.st # "Ok" THEN value
             ELSE Out(Ok(Nil), define(value.heap, env, exps[2].name, value.val),
                      Append(value.log,
                             [ev |-> "define", env |-> env, name |-> exps[2].name,
                              val |-> value.val]))

\* An evalArgs that evaluates the elements after a failing one as well,
\* and then returns the first failure.
RECURSIVE evalArgsEager(_, _, _, _, _, _, _)
evalArgsEager(elems, i, env, h, d, args, log) ==
    IF i > Len(elems) THEN [st |-> "Ok", val |-> List(args), heap |-> h, log |-> log]
    ELSE LET result == eval(elems[i], env, h, d)
         IN  IF result.st # "Ok"
             THEN LET rest == evalArgsEager(elems, i + 1, env, result.heap, d,
                                            args, log \o result.log)
                  IN  Out(result, rest.heap, rest.log)
             ELSE evalArgsEager(elems, i + 1, env, result.heap, d,
                                Append(args, result.val), log \o result.log)

\* eval, the loop over the elements after the first: each is evaluated in
\* turn, the first failure returned at once.
evalArgs(elems, i, env, h, d, args, log) ==
    IF i > Len(elems) THEN [st |-> "Ok", val |-> List(args), heap |-> h, log |-> log]
    ELSE LET result == eval(elems[i], env, h, d)
         IN  IF result.st # "Ok" THEN Out(result, result.heap, log \o result.log)
             ELSE evalArgs(elems, i + 1, env, result.heap, d,
                           Append(args, result.val), log \o result.log)

\* The log of an evaluation that returned: its steps and the return.
Returned(r, exp, env) ==
    IF r.st \in {"Ok", "Err"}
    THEN Out(r, r.heap, Append(r.log, [ev |-> "return", env |-> env, exp |-> exp,
                                        res |-> [st |-> r.st, val |-> r.val]]))
    ELSE r

eval(exp, env, h, d) ==
    LET entered == <<[ev |-> "eval", env |-> env, exp |-> exp]>>
        r == IF d = 0 THEN Out(StackOverflow, h, entered)
             ELSE IF exp.t \in {"Nil", "Integer", "Callable", "Error"}
             THEN Out(Ok(exp), h, entered)
             ELSE IF exp.t = "Symbol" THEN Out(Ok(get(h, env, exp.name)), h, entered)
             ELSE IF is_definition(exp.elems)
             THEN LET v == make_definition(exp.elems, env, h, d - 1)
                  IN  Out(v, v.heap, entered \o v.log)
             ELSE IF is_lambda(exp.elems)
             THEN LET v == make_lambda(exp.elems, env, h)
                  IN  Out(v, v.heap, entered \o v.log)
             ELSE IF exp.elems = <<>>
             THEN Out(Panic("unwrap on None"), h, entered)
             ELSE LET proc == eval(exp.elems[1], env, h, d - 1)
                  IN  IF proc.st # "Ok" THEN Out(proc, proc.heap, entered \o proc.log)
                      ELSE LET args == evalArgs(exp.elems, 2, env, proc.heap, d - 1,
                                                <<>>, entered \o proc.log)
                           IN  IF args.st # "Ok" THEN args
                               ELSE LET a == apply(proc.val, args.val.elems, env,
                                                   args.heap, d - 1)
                                    IN  Out(a, a.heap, args.log \o a.log)
    IN  Returned(r, exp, env)

---------------------------------------------------------------------------
(* The reader: src/src/reader.rs. It builds the pair objects of            *)
(* src/src/main.rs (Nil, Pair, Integer, Symbol): a list is a chain of      *)
(* pairs ended by Nil, the empty list is Nil. The input is a sequence of   *)
(* characters and the Peekable lexer a position in it: peek looks at       *)
(* code[pos], next moves past it, and both are None at Len(code) + 1.      *)

Pair(a, d) == [t |-> "Pair", car |-> a, cdr |-> d]

is_pair(o) == o.t = "Pair"

is_nil(o) == o.t = "Nil"

pair_cons(a, d) == Pair(a, d)

RECURSIVE set_last_cdr(_, _)
set_last_cdr(o, new_cdr) ==
    IF ~is_pair(o) THEN o
    ELSE IF is_nil(o.cdr) THEN [o EXCEPT !.cdr = new_cdr]
    ELSE [o EXCEPT !.cdr = set_last_cdr(@, new_cdr)]

Digits == {"0", "1", "2", "3", "4", "5", "6", "7", "8", "9"}

\* c.to_string().parse::<i64>() of a digit character.
DigitValue(c) ==
    CASE c = "0" -> 0 [] c = "1" -> 1 [] c = "2" -> 2 [] c = "3" -> 3
      [] c = "4" -> 4 [] c = "5" -> 5 [] c = "6" -> 6 [] c = "7" -> 7
      [] c = "8" -> 8 [] c = "9" -> 9

Alphanumerics == Digits \cup {"a", "b", "d", "e", "f", "i", "n", "o", "r"}
Punctuation == {"(", ")", "+", "-", "*", "!"}

valid_symbol_char(c) ==
    IF c = "(" \/ c = ")" THEN FALSE
    ELSE c \in Alphanumerics \/ c \in Punctuation

HasNext(code, pos) == pos <= Len(code)

\* lexer.next(): the position afterwards.
Advance(code, pos) == IF HasNext(code, pos) THEN pos + 1 ELSE pos

Read(o, pos) == [ok |-> TRUE, obj |-> o, pos |-> pos, msg |-> ""]
Failed(m, pos) == [ok |-> FALSE, obj |-> Nil, pos |-> pos, msg |-> m]

\* read_integer, the while loop over the digits that follow the first.
RECURSIVE digitsLoop(_, _, _)
digitsLoop(code, pos, number) ==
    IF HasNext(code, pos) /\ code[pos] \in Digits
    THEN digitsLoop(code, pos + 1, number * 10 + DigitValue(code[pos]))
    ELSE [number |-> number, pos |-> pos]

\* A read_integer that ends at the first character that is no digit.
read_integerExact(code, pos) ==
    IF code[pos] \notin Digits THEN Failed("error parsing number", pos + 1)
    ELSE LET run == digitsLoop(code, pos + 1, DigitValue(code[pos]))
         IN  Read(Integer(run.number), run.pos)

\* read_integer: the digits, and then one more lexer.next().
read_integer(code, pos) ==
    IF code[pos] \notin Digits THEN Failed("error parsing number", pos + 1)
    ELSE LET run == digitsLoop(code, pos + 1, DigitValue(code[pos]))
         IN  Read(Integer(run.number), Advance(code, run.pos))

\* read_symbol, the while loop over the characters that follow the first.
RECURSIVE symbolLoop(_, _, _)
symbolLoop(code, pos, result) ==
    IF HasNext(code, pos) /\ valid_symbol_char(code[pos])
    THEN symbolLoop(code, pos + 1, result \o code[pos])
    ELSE Read(Symbol(result), pos)

read_symbol(code, pos) == symbolLoop(code, pos + 1, code[pos])

RECURSIVE read_object(_, _)
RECURSIVE read_list(_, _)
RECURSIVE listLoop(_, _, _)

\* read_list, the while loop: list is the list built so far.
listLoop(code, pos, lst) ==
    IF ~HasNext(code, pos) THEN Read(lst, pos)
    ELSE IF code[pos] = ")" THEN Read(lst, pos + 1)
    ELSE IF code[pos] = " " \/ code[pos] = "\n" THEN listLoop(code, pos + 1, lst)
    ELSE LET element == IF code[pos] = "("
                        THEN read_list(code, pos)
                        ELSE read_object(code, pos)
         IN  IF ~element.ok THEN element
             ELSE listLoop(code, element.pos,
                           IF is_pair(lst)
                           THEN set_last_cdr(lst, pair_cons(element.obj, Nil))
                           ELSE pair_cons(element.obj, Nil))

read_list(code, pos) == listLoop(code, pos + 1, Nil)

read_object(code, pos) ==
    IF ~HasNext(code, pos) THEN Failed("unexpected character: None", pos)
    ELSE IF code[pos] \in Digits THEN read_integer(code, pos)
    ELSE IF code[pos] = "(" THEN read_list(code, pos)
    ELSE IF valid_symbol_char(code[pos]) THEN read_symbol(code, pos)
    ELSE Failed("unexpected character: Some('" \o code[pos] \o "')", pos)

\* read, the while loop: objects is the vector built so far.
RECURSIVE readLoop(_, _, _)
readLoop(code, pos, objects) ==
    IF ~HasNext(code, pos) THEN [ok |-> TRUE, objects |-> objects, msg |-> ""]
    ELSE IF code[pos] = " " \/ code[pos] = "\n" THEN readLoop(code, pos + 1, objects)
    ELSE LET object == read_object(code, pos)
         IN  IF ~object.ok THEN [ok |-> FALSE, objects |-> <<>>, msg |-> object.msg]
             ELSE readLoop(code, object.pos, Append(objects, object.obj))

read(code) == readLoop(code, 1, <<>>)

---------------------------------------------------------------------------
(* EnvSpec: the Environment interface driven directly, as the tests of     *)
(* src/src/object.rs do: new, define, new_child, get.                      *)

EnvKeys == {"x", "+"}

\* The (key, value) pairs define is called with: x gets two values, so that
\* an overwrite shows, and + is a name the root frame binds from the start.
EnvBindings == {<<"x", Integer(1)>>, <<"x", Integer(2)>>, <<"+", Integer(1)>>}

NoCall == [op |-> "none", frame |-> 0, key |-> "", val |-> Nil, res |-> Ok(Nil)]

InitEnv ==
    /\ heap = <<NewEnvironment>>
    /\ call = NoCall
    /\ hist = <<>>

EnvDefine ==
    \E f \in 1..Len(heap), b \in EnvBindings :
        /\ heap' = define(heap, f, b[1], b[2])
        /\ call' = [op |-> "define", frame |-> f, key |-> b[1], val |-> b[2],
                    res |-> Ok(Nil)]
        /\ UNCHANGED hist

EnvNewChild ==
    \E p \in 1..Len(heap) :
        /\ Len(heap) < MaxFrames
        /\ heap' = new_child(heap, p)
        /\ call' = [op |-> "new_child", frame |-> Len(heap) + 1, key |-> "",
                    val |-> Nil, res |-> Ok(Nil)]
        /\ UNCHANGED hist

EnvGet ==
    \E f \in 1..Len(heap), key \in EnvKeys :
        /\ call' = [op |-> "get", frame |-> f, key |-> key, val |-> Nil,
                    res |-> get(heap, f, key)]
        /\ UNCHANGED <<heap, hist>>

NextEnv == EnvDefine \/ EnvNewChild \/ EnvGet

EnvSpec == InitEnv /\ [][NextEnv]_vars

\* The proper ancestors of frame f.
RECURSIVE Ancestors(_, _)
Ancestors(h, f) ==
    IF h[f].parent = 0 THEN {} ELSE {h[f].parent} \cup Ancestors(h, h[f].parent)

\* The frames from f up to the root, f first.
RECURSIVE Chain(_, _)
Chain(h, f) ==
    IF h[f].parent = 0 THEN <<f>> ELSE <<f>> \o Chain(h, h[f].parent)

\* The value of the first frame of Chain(h, f) that binds key, else Nil.
NearestBinding(h, f, key) ==
    LET c == Chain(h, f)
        b == {i \in 1..Len(c) : key \in DOMAIN h[c[i]].entries}
    IN  IF b = {} THEN Nil
        ELSE h[c[CHOOSE i \in b : \A j \in b : i <= j]].entries[key]

(* C1: a define on frame f inserts or overwrites the key in f's own        *)
(* mapping and changes no other frame: every other frame, every parent     *)
(* link and every ancestor's lookups are as before, and f's lookup of the  *)
(* key yields the value defined.                                           *)
C1_DefineIsLocal ==
    [][call'.op = "define" =>
        LET f == call'.frame IN
        /\ Len(heap') = Len(heap)
        /\ \A g \in 1..Len(heap) : g # f => heap'[g] = heap[g]
        /\ heap'[f].parent = heap[f].parent
        /\ heap'[f].entries = Insert(heap[f].entries, call'.key, call'.val)
        /\ get(heap', f, call'.key) = call'.val
        /\ \A a \in Ancestors(heap, f) : \A k \in EnvKeys :
               get(heap', a, k) = get(heap, a, k)
    ]_vars

\* C1's case: a child defines a key its parent binds to another value.
C1_Witness ==
    /\ call.op = "define"
    /\ heap[call.frame].parent # 0
    /\ call.key \in DOMAIN heap[heap[call.frame].parent].entries
    /\ get(heap, heap[call.frame].parent, call.key) # call.val
    /\ get(heap, call.frame, call.key) = call.val

(* C2: get returns the value of the nearest frame, from the queried frame  *)
(* to the root, that binds the name, and Nil when none does; it returns an *)
(* Object (get has no failure to return) and leaves every frame as it was. *)
C2_GetFindsNearest ==
    /\ [](call.op = "get" =>
            /\ call.res = NearestBinding(heap, call.frame, call.key)
            /\ call.res.t \in {"Nil", "Integer", "Symbol", "List", "Callable", "Error"}
            /\ ((\A i \in 1..Len(Chain(heap, call.frame)) :
                    call.key \notin DOMAIN heap[Chain(heap, call.frame)[i]].entries)
                 => call.res = Nil))
    /\ [][call'.op = "get" => heap' = heap]_vars

\* C2's case: a lookup that misses locally and in the parent and is answered
\* by the grandparent.
C2_Witness ==
    /\ call.op = "get"
    /\ Len(Chain(heap, call.frame)) >= 3
    /\ call.key \notin DOMAIN heap[call.frame].entries
    /\ call.key \notin DOMAIN heap[heap[call.frame].parent].entries
    /\ call.res # Nil

---------------------------------------------------------------------------
(* NativeSpec: each native procedure called with an argument slice, as     *)
(* the tests of src/src/object.rs do.                                      *)

Ints == (0 - MaxInt) .. MaxInt

ArgVals ==
    {Integer(n) : n \in Ints}
        \cup {Nil, Symbol("x"), List(<<>>), List(<<Integer(1), Integer(2)>>)}

RECURSIVE SeqsUpTo(_, _)
SeqsUpTo(S, n) ==
    IF n = 0 THEN {<<>>}
    ELSE LET shorter == SeqsUpTo(S, n - 1)
         IN  shorter \cup {Append(q, x) : q \in {r \in shorter : Len(r) = n - 1}, x \in S}

ArgLists == SeqsUpTo(ArgVals, MaxArgs)

NativeCall(name, args) ==
    [op |-> name, args |-> args, res |-> builtin(name, args)]

\* The argument slice is chosen first; one native is then applied to it.
InitNative ==
    /\ heap = <<NewEnvironment>>
    /\ call \in {[op |-> "args", args |-> a, res |-> Ok(Nil)] : a \in ArgLists}
    /\ hist = <<>>

CallPlus ==
    /\ call.op = "args"
    /\ call' = NativeCall("+", call.args)
    /\ UNCHANGED <<heap, hist>>

CallMinus ==
    /\ call.op = "args"
    /\ call' = NativeCall("-", call.args)
    /\ UNCHANGED <<heap, hist>>

CallMultiply ==
    /\ call.op = "args"
    /\ call' = NativeCall("*", call.args)
    /\ UNCHANGED <<heap, hist>>

CallList ==
    /\ call.op = "args"
    /\ call' = NativeCall("list", call.args)
    /\ UNCHANGED <<heap, hist>>

CallCons ==
    /\ call.op = "args"
    /\ call' = NativeCall("cons", call.args)
    /\ UNCHANGED <<heap, hist>>

CallCar ==
    /\ call.op = "args"
    /\ call' = NativeCall("car", call.args)
    /\ UNCHANGED <<heap, hist>>

NextNative ==
    CallPlus \/ CallMinus \/ CallMultiply \/ CallList \/ CallCons \/ CallCar

NativeSpec == InitNative /\ [][NextNative]_vars

AllIntegers(args) == \A i \in 1..Len(args) : args[i].t = "Integer"

\* The mathematical sum of the integers args[i..].
RECURSIVE SumFrom(_, _)
SumFrom(args, i) ==
    IF i > Len(args) THEN 0 ELSE args[i].v + SumFrom(args, i + 1)

(* C5: every failure a native procedure returns carries an Error(message)  *)
(* object, never Nil or another variant.                                   *)
C5_FailureCarriesError ==
    (call.op \in NativeNames /\ call.res.st = "Err") => call.res.val.t = "Error"

(* C6: + on Integer arguments returns Ok(Integer(sum)), 0 for none, and on *)
(* an argument list holding any non-Integer it returns a failure.          *)
C6_PlusSumsOrFails ==
    call.op = "+" =>
        IF AllIntegers(call.args)
        THEN call.res = Ok(Integer(SumFrom(call.args, 1)))
        ELSE call.res.st = "Err"

(* C7: - on n >= 2 Integer arguments returns Ok(Integer(a1 - a2 - .. - an)),*)
(* each later argument subtracted in turn from the running result, and on  *)
(* fewer than 2 arguments of any types Err(Error("not enough arguments")). *)
C7_MinusSubtractsInTurn ==
    /\ call.op = "-" =>
          /\ Len(call.args) < 2 => call.res = Err(Error("not enough arguments"))
          /\ (Len(call.args) >= 2 /\ AllIntegers(call.args)) =>
                call.res = Ok(Integer(call.args[1].v - SumFrom(call.args, 2)))
    /\ minus(<<Integer(3), Integer(2), Integer(1)>>) = Ok(Integer(0))
    /\ minus(<<Integer(8), Integer(4), Integer(2)>>) = Ok(Integer(2))

\* C7's case: three Integer arguments, the last not 0, so that the order of
\* the subtractions shows in the result.
C7_Witness ==
    /\ call.op = "-"
    /\ Len(call.args) = 3
    /\ AllIntegers(call.args)
    /\ call.args[3].v # 0
    /\ call.res = Ok(Integer(call.args[1].v - call.args[2].v - call.args[3].v))

---------------------------------------------------------------------------
(* Spec: the driver of the tests of src/src/evaluator.rs (assert_eval):    *)
(* one root environment, and eval called on one top-level form after       *)
(* another against it. A panic ends the run.                               *)

App(items) == List(items)
Define(name, exp) == List(<<Symbol("define"), Symbol(name), exp>>)
Fn(names, body) ==
    List(<<Symbol("lambda"), List([i \in 1..Len(names) |-> Symbol(names[i])]), body>>)

\* (lambda (x) (lambda (y) (+ x y)))
Adder == Fn(<<"x">>, Fn(<<"y">>, App(<<Symbol("+"), Symbol("x"), Symbol("y")>>)))

\* The top-level forms the driver is given.
Forms ==
    { Symbol("x"),
      Define("x", Integer(1)),
      Define("x", App(<<Symbol("+"), Integer(1), Integer(1)>>)),
      Define("x", App(<<Integer(1)>>)),
      Define("x", App(<<Symbol("list"), Define("y", Integer(1)), App(<<Integer(1)>>)>>)),
      Define("f", Fn(<<"y">>, App(<<Symbol("+"), Symbol("x"), Symbol("y")>>))),
      App(<<Fn(<<"x">>, App(<<Symbol("f"), Integer(2)>>)), Integer(1)>>),
      App(<<App(<<Adder, Integer(1)>>), Integer(2)>>),
      Define("g", App(<<Adder, Integer(1)>>)),
      App(<<Symbol("g"), Integer(2)>>),
      App(<<Integer(1)>>),
      App(<<Symbol("y"), Define("x", Integer(2))>>),
      App(<<Fn(<<"y">>, Define("x", Symbol("y"))), Integer(2)>>),
      App(<<Fn(<<"y", "z">>, App(<<Symbol("-"), Symbol("y"), Symbol("z")>>)),
            Integer(2), Integer(1)>>),
      App(<<App(<<Symbol("list")>>), Integer(1)>>),
      App(<<Error("boom")>>) }

Init ==
    /\ heap = <<NewEnvironment>>
    /\ call = NoCall
    /\ hist = <<>>

\* result = eval(exp, env.clone()) for the next form; pre is the heap before.
EvalForm ==
    \E exp \in Forms :
        /\ Len(hist) < MaxSteps
        /\ hist # <<>> => hist[Len(hist)].res.st \in {"Ok", "Err"}
        /\ LET r == eval(exp, 1, heap, MaxDepth)
           IN  /\ heap' = r.heap
               /\ hist' = Append(hist, [form |-> exp, env |-> 1, pre |-> heap,
                                        res |-> [st |-> r.st, val |-> r.val],
                                        log |-> r.log])
        /\ UNCHANGED call

Next == EvalForm

Spec == Init /\ [][Next]_vars

\* The heap after the i-th top-level form.
Post(i) == IF i = Len(hist) THEN heap ELSE hist[i + 1].pre

Result(r) == [st |-> r.st, val |-> r.val]

\* The logs of the top-level forms before the j-th, in order.
RECURSIVE LogBefore(_)
LogBefore(j) == IF j <= 1 THEN <<>> ELSE LogBefore(j - 1) \o hist[j - 1].log

\* (define <symbol> <expr>)
IsDefineForm(e) ==
    /\ e.t = "List"
    /\ Len(e.elems) = 3
    /\ e.elems[1] = Symbol("define")
    /\ e.elems[2].t = "Symbol"

\* The i-th form, when it is (define s e): a successful e makes the form
\* return Ok(Nil) and bind s to e's value in the frame it is evaluated in;
\* a failing e is returned as the form's failure, and the heap is then, with
\* strict, the heap before the form, and without, the heap e's own
\* evaluation left.
DefineOutcome(i, strict) ==
    LET rec == hist[i]
        v == eval(rec.form.elems[3], rec.env, rec.pre, MaxDepth - 1)
        name == rec.form.elems[2].name
    IN  /\ v.st = "Ok" =>
              /\ rec.res = Ok(Nil)
              /\ Post(i) = [v.heap EXCEPT ![rec.env].entries = Insert(@, name, v.val)]
              /\ get(Post(i), rec.env, name) = v.val
        /\ v.st = "Err" =>
              /\ rec.res = Result(v)
              /\ Post(i) = IF strict THEN rec.pre ELSE v.heap

\* The j-th form, when it is a symbol some earlier form defined in the root
\* frame: it evaluates to the value of the latest such define.
LookupSeesLatestDefine(j) ==
    LET rec == hist[j]
        L == LogBefore(j)
        defs == {k \in 1..Len(L) : /\ L[k].ev = "define"
                                   /\ L[k].env = rec.env
                                   /\ L[k].name = rec.form.name}
    IN  defs # {} =>
            rec.res = Ok(L[CHOOSE k \in defs : \A m \in defs : m <= k].val)

\* The defines of the i-th form, which may be nested in it and evaluated in
\* frames of lambda applications: what the latest define of a name in a
\* frame bound is that frame's own binding afterwards, and only frames that
\* some define was evaluated in have changed.
DefinesAreLocal(i) ==
    LET rec == hist[i]
        L == rec.log
        IsDefine(k) == L[k].ev = "define"
    IN  /\ \A k \in 1..Len(L) :
              (/\ IsDefine(k)
               /\ ~\E m \in (k + 1)..Len(L) :
                      IsDefine(m) /\ L[m].env = L[k].env /\ L[m].name = L[k].name) =>
                  /\ L[k].name \in DOMAIN Post(i)[L[k].env].entries
                  /\ Post(i)[L[k].env].entries[L[k].name] = L[k].val
        /\ \A f \in 1..Len(rec.pre) :
              Post(i)[f] # rec.pre[f] => \E k \in 1..Len(L) : IsDefine(k) /\ L[k].env = f

(* C3 as amended: (define s e) with e succeeding returns Ok(Nil) and binds *)
(* s to e's value in the local frame, and a later top-level symbol s       *)
(* evaluates to the value of the latest successful define of s; with e     *)
(* failing, the failure is returned and the define binds nothing: the      *)
(* frames are as e's own evaluation left them.                             *)
C3_DefineBinds ==
    \A i \in 1..Len(hist) :
        /\ IsDefineForm(hist[i].form) => DefineOutcome(i, FALSE)
        /\ DefinesAreLocal(i)
        /\ hist[i].form.t = "Symbol" => LookupSeesLatestDefine(i)

(* C3 as claimed: as above, but with e failing the environment is          *)
(* unchanged, that is, as it was before the define form was evaluated.     *)
C3_FailedDefineChangesNothing ==
    \A i \in 1..Len(hist) :
        /\ IsDefineForm(hist[i].form) => DefineOutcome(i, TRUE)
        /\ DefinesAreLocal(i)
        /\ hist[i].form.t = "Symbol" => LookupSeesLatestDefine(i)

\* C3's case: x is defined, a second define of x fails after its expression
\* has bound y, and x then still evaluates to the first define's value.
C3_Witness ==
    /\ Len(hist) = 3
    /\ hist[1].form = Define("x", App(<<Symbol("+"), Integer(1), Integer(1)>>))
    /\ hist[1].res = Ok(Nil)
    /\ IsDefineForm(hist[2].form)
    /\ hist[2].res.st = "Err"
    /\ hist[2].pre # hist[3].pre
    /\ hist[3].form = Symbol("x")
    /\ hist[3].res = Ok(Integer(2))

\* The first eval entered after position k of log L (0 when there is none).
NextEval(L, k) ==
    LET later == {m \in (k + 1)..Len(L) : L[m].ev = "eval"}
    IN  IF later = {} THEN 0 ELSE CHOOSE m \in later : \A n \in later : m <= n

IsClosure(o) == o.t = "Callable" /\ o.fn.k = "Lambda"

(* C4: a closure holds the environment its lambda expression was evaluated *)
(* in; applying it evaluates the body in a new frame whose parent is that  *)
(* environment, whatever the environment of the call; so the curried adder *)
(* yields 1 + 2 at once and after its creating call has returned, and a    *)
(* closure over the root reads the root's x, not the caller's.             *)
C4_LexicalScope ==
    \A i \in 1..Len(hist) :
        LET rec == hist[i]
            L == rec.log
        IN  /\ \A k \in 1..Len(L) :
                  /\ L[k].ev = "lambda" => L[k].fn.env = L[k].env
                  /\ (L[k].ev = "apply" /\ IsClosure(L[k].proc)) =>
                        /\ k < Len(L)
                        /\ L[k + 1].ev = "frame"
                        /\ L[k + 1].parent = L[k].proc.fn.env
                        /\ Post(i)[L[k + 1].frame].parent = L[k].proc.fn.env
                        /\ NextEval(L, k) # 0
                        /\ L[NextEval(L, k)].env = L[k + 1].frame
                        /\ L[NextEval(L, k)].exp = L[k].proc.fn.body[1]
            /\ (/\ rec.form = App(<<App(<<Adder, Integer(1)>>), Integer(2)>>)
                /\ get(rec.pre, 1, "+") = Callable(Native("+")))
                   => rec.res = Ok(Integer(3))
            /\ (/\ rec.form = App(<<Symbol("g"), Integer(2)>>)
                /\ IsClosure(get(rec.pre, 1, "g"))
                /\ get(rec.pre, 1, "+") = Callable(Native("+")))
                   => rec.res = Ok(Integer(3))
            /\ (/\ rec.form = App(<<Fn(<<"x">>, App(<<Symbol("f"), Integer(2)>>)),
                                    Integer(1)>>)
                /\ IsClosure(get(rec.pre, 1, "f"))
                /\ get(rec.pre, 1, "x").t = "Integer"
                /\ get(rec.pre, 1, "+") = Callable(Native("+")))
                   => rec.res = Ok(Integer(get(rec.pre, 1, "x").v + 2))

\* C4's case: the adder's inner closure, made in a call that has returned,
\* is applied from the root while the root binds x to 2, and yields 1 + 2.
C4_Witness ==
    \E i \in 1..Len(hist) :
        /\ hist[i].form = App(<<Symbol("g"), Integer(2)>>)
        /\ IsClosure(get(hist[i].pre, 1, "g"))
        /\ get(hist[i].pre, 1, "x") = Integer(2)
        /\ hist[i].res = Ok(Integer(3))

\* The elements of a list evaluated in turn from index i, each on the heap
\* its predecessor left: whether all succeeded, their values, heap and log.
RECURSIVE EvalAll(_, _, _, _, _, _)
EvalAll(elems, i, env, h, vals, log) ==
    IF i > Len(elems) THEN [ok |-> TRUE, vals |-> vals, heap |-> h, log |-> log]
    ELSE LET r == eval(elems[i], env, h, MaxDepth - 1)
         IN  IF r.st # "Ok"
             THEN [ok |-> FALSE, vals |-> vals, heap |-> r.heap, log |-> log \o r.log]
             ELSE EvalAll(elems, i + 1, env, r.heap, Append(vals, r.val), log \o r.log)

\* The procedure invocations of a log: natives called and frames created.
Invocations(L) ==
    Cardinality({k \in 1..Len(L) :
        \/ L[k].ev = "frame"
        \/ (L[k].ev = "apply" /\ L[k].proc.t = "Callable")})

(* C8: a list that is no define or lambda form, whose first element        *)
(* evaluates to a non-Callable and whose other elements all evaluate       *)
(* successfully, returns Err(Error("cannot call non-function")); beyond    *)
(* what evaluating its elements did, no procedure is invoked and no frame  *)
(* changes. The same holds of apply called on any non-Callable object.     *)
C8_NonCallableFails ==
    /\ \A i \in 1..Len(hist) :
          LET rec == hist[i]
              e == rec.form
          IN  (/\ e.t = "List"
               /\ e.elems # <<>>
               /\ ~is_definition(e.elems)
               /\ ~is_lambda(e.elems)) =>
                  LET s == EvalAll(e.elems, 1, rec.env, rec.pre, <<>>, <<>>)
                  IN  (s.ok /\ s.vals[1].t # "Callable") =>
                          /\ rec.res = Err(Error("cannot call non-function"))
                          /\ Post(i) = s.heap
                          /\ Invocations(rec.log) = Invocations(s.log)
    /\ \A proc \in {Nil, Integer(1), Symbol("x"), List(<<>>), Error("boom")} :
          \A args \in {<<>>, <<Integer(1)>>} :
              LET r == apply(proc, args, 1, heap, MaxDepth)
              IN  /\ Result(r) = Err(Error("cannot call non-function"))
                  /\ r.heap = heap
                  /\ Invocations(r.log) = 0

\* C8's case: the operator is an unbound symbol (Nil) or an Integer, the
\* argument, a define, was evaluated, and the call failed.
C8_Witness ==
    \E i \in 1..Len(hist) :
        /\ hist[i].form = App(<<Symbol("y"), Define("x", Integer(2))>>)
        /\ get(hist[i].pre, 1, "x") # Integer(2)
        /\ get(Post(i), 1, "x") = Integer(2)
        /\ hist[i].res = Err(Error("cannot call non-function"))

---------------------------------------------------------------------------
(* ReadSpec: read called on an input text, as the tests of                 *)
(* src/src/reader.rs do.                                                   *)

MaxInputLen == 5    \* characters of an input drawn from Alphabet

Alphabet == {"(", ")", " ", "1", "2", "a"}

\* The inputs of the tests of src/src/reader.rs and src/src/evaluator.rs
\* that are longer than MaxInputLen (with one-letter symbols), and a list
\* whose first element is a list ending in an integer.
Examples ==
    { <<"(", "1", " ", "2", ")", " ", "3">>,
      <<"(", "d", " ", "f", " ", "1", "5", ")", " ", "f">>,
      <<"(", "1", " ", "(", "2", " ", "3", " ", "(", "4", " ", "5", ")", ")", ")">>,
      <<"(", "+", " ", "1", " ", "2", " ", "3", ")">>,
      <<"5", " ", "5", " ", "5", " ", "5">>,
      <<"(", "(", "1", " ", ")", " ", "2", ")">> }

Inputs == SeqsUpTo(Alphabet, MaxInputLen) \cup Examples

\* The input is chosen first; read is then applied to it.
InitRead ==
    /\ heap = <<NewEnvironment>>
    /\ call \in {[op |-> "input", input |-> code,
                  res |-> [ok |-> TRUE, objects |-> <<>>, msg |-> ""]] :
                     code \in Inputs}
    /\ hist = <<>>

ReadInput ==
    /\ call.op = "input"
    /\ call' = [op |-> "read", input |-> call.input, res |-> read(call.input)]
    /\ UNCHANGED <<heap, hist>>

NextRead == ReadInput

ReadSpec == InitRead /\ [][NextRead]_vars

(* The grammar of the input, read as the claim words it: an integer is a   *)
(* maximal run of digits and ends before the next character, a list is the *)
(* objects between a ( and its matching ), a list the input ends inside    *)
(* is no list.                                                             *)
RECURSIVE GrammarObject(_, _)
RECURSIVE GrammarList(_, _, _)

GrammarList(code, pos, elems) ==
    IF ~HasNext(code, pos) THEN Failed("unterminated list", pos)
    ELSE IF code[pos] = ")" THEN Read(elems, pos + 1)
    ELSE IF code[pos] = " " \/ code[pos] = "\n" THEN GrammarList(code, pos + 1, elems)
    ELSE LET element == GrammarObject(code, pos)
         IN  IF ~element.ok THEN element
             ELSE GrammarList(code, element.pos, Append(elems, element.obj))

\* The pair chain of a sequence of objects.
RECURSIVE Chained(_, _)
Chained(elems, i) ==
    IF i > Len(elems) THEN Nil ELSE Pair(elems[i], Chained(elems, i + 1))

GrammarObject(code, pos) ==
    IF code[pos] \in Digits THEN read_integerExact(code, pos)
    ELSE IF code[pos] = "("
    THEN LET l == GrammarList(code, pos + 1, <<>>)
         IN  IF l.ok THEN Read(Chained(l.obj, 1), l.pos) ELSE l
    ELSE IF valid_symbol_char(code[pos]) THEN read_symbol(code, pos)
    ELSE Failed("unexpected character", pos)

RECURSIVE GrammarForms(_, _, _)
GrammarForms(code, pos, objects) ==
    IF ~HasNext(code, pos) THEN [ok |-> TRUE, objects |-> objects, msg |-> ""]
    ELSE IF code[pos] = " " \/ code[pos] = "\n"
    THEN GrammarForms(code, pos + 1, objects)
    ELSE LET object == GrammarObject(code, pos)
         IN  IF ~object.ok THEN [ok |-> FALSE, objects |-> <<>>, msg |-> object.msg]
             ELSE GrammarForms(code, object.pos, Append(objects, object.obj))

(* C9: read returns exactly one object per top-level form of the input, in *)
(* input order: an integer is its maximal run of digits and no more, a     *)
(* list holds exactly the objects between its ( and its matching ), and    *)
(* what follows the ) is read as further top-level forms.                  *)
C9_OneObjectPerForm ==
    call.op = "read" =>
        LET forms == GrammarForms(call.input, 1, <<>>)
        IN  forms.ok => (call.res.ok /\ call.res.objects = forms.objects)

\* The number of ( of code[1..n] still open after code[n].
RECURSIVE OpenAfter(_, _)
OpenAfter(code, n) ==
    IF n = 0 THEN 0
    ELSE LET before == OpenAfter(code, n - 1)
         IN  IF code[n] = "(" THEN before + 1
             ELSE IF code[n] = ")" /\ before > 0 THEN before - 1
             ELSE before

(* C10: read of an input in which some ( has no matching ) before the end  *)
(* returns a failure, never Ok with the list built so far.                 *)
C10_UnterminatedListFails ==
    (call.op = "read" /\ OpenAfter(call.input, Len(call.input)) > 0) => ~call.res.ok

---------------------------------------------------------------------------
(* The canonical rendering: impl fmt::Display for Object of                *)
(* src/src/object.rs, as the sequence of the characters it writes.         *)

\* The characters of a string.
Chars(str) == [i \in 1..Len(str) |-> SubSeq(str, i, i)]

DigitChar(n) ==
    CASE n = 0 -> "0" [] n = 1 -> "1" [] n = 2 -> "2" [] n = 3 -> "3"
      [] n = 4 -> "4" [] n = 5 -> "5" [] n = 6 -> "6" [] n = 7 -> "7"
      [] n = 8 -> "8" [] n = 9 -> "9"

\* write!(f, "{}", num) of an i64: its decimal digits, after a - when negative.
RECURSIVE Decimal(_)
Decimal(num) ==
    IF num < 0 THEN <<"-">> \o Decimal(0 - num)
    ELSE IF num < 10 THEN <<DigitChar(num)>>
    ELSE Append(Decimal(num \div 10), DigitChar(num % 10))

RECURSIVE Display(_)
RECURSIVE DisplayItems(_, _)

\* The loop of the List arm: each item, and a space after all but the last.
DisplayItems(items, i) ==
    IF i > Len(items) THEN <<>>
    ELSE Display(items[i]) \o (IF i # Len(items) THEN <<" ">> ELSE <<>>)
           \o DisplayItems(items, i + 1)

Display(o) ==
    CASE o.t = "Nil" -> Chars("<nil>")
      [] o.t = "Integer" -> Decimal(o.v)
      [] o.t = "Symbol" -> Chars(o.name)
      [] o.t = "Error" -> Chars("Error(") \o Chars(o.msg) \o <<")">>
      [] o.t = "Callable" -> Chars("<callable>")
      [] o.t = "List" -> <<"(">> \o DisplayItems(o.elems, 1) \o <<")">>

\* The List a list of the reader stands for: the reader builds a list as a
\* chain of pairs ended by Nil, and the empty list as Nil.
RECURSIVE AsList(_)
RECURSIVE ChainItems(_)
ChainItems(o) == IF is_pair(o) THEN <<AsList(o.car)>> \o ChainItems(o.cdr) ELSE <<>>

AsList(o) == IF is_pair(o) \/ is_nil(o) THEN List(ChainItems(o)) ELSE o

(* C11: the round trip of the reader. For every object read returns,       *)
(* reading its canonical rendering returns exactly one object, and that    *)
(* object is equal to it.                                                  *)
C11_ReadRoundTrip ==
    (call.op = "read" /\ call.res.ok) =>
        \A i \in 1..Len(call.res.objects) :
            LET o == call.res.objects[i]
                again == read(Display(AsList(o)))
            IN  again.ok /\ again.objects = <<o>>

---------------------------------------------------------------------------
(* EdgeSpec: the driver of Spec, given forms at the edges of the           *)
(* evaluator's cases: the empty list, define and lambda forms short of     *)
(* elements, parameter lists that are no lists of symbols, and             *)
(* applications whose operator or arguments define names or fail.          *)

\* (lambda P B) for any parameter object P.
FnOf(P, B) == List(<<Symbol("lambda"), P, B>>)

\* Forms short of elements.
ShortForms ==
    { List(<<>>),
      List(<<Symbol("define")>>),
      List(<<Symbol("define"), Symbol("x")>>),
      List(<<Symbol("lambda")>>),
      List(<<Symbol("lambda"), List(<<Symbol("x")>>)>>) }

\* Lambda forms, by their parameter object.
LambdaForms ==
    { FnOf(List(<<>>), Symbol("x")),
      FnOf(List(<<Symbol("x"), Symbol("y")>>), Symbol("x")),
      FnOf(Integer(1), Symbol("x")),
      FnOf(List(<<Integer(1)>>), Symbol("x")),
      FnOf(List(<<Symbol("x"), List(<<Symbol("y")>>)>>), Symbol("x")) }

\* Applications whose operator and arguments define names or fail.
OrderForms ==
    { App(<<Symbol("list"), Define("a", Integer(1)), App(<<Integer(1)>>),
            Define("b", Integer(2))>>),
      App(<<App(<<Integer(1)>>), Define("b", Integer(2))>>),
      App(<<Fn(<<"y">>, Define("c", Symbol("y"))), App(<<Integer(1)>>)>>),
      App(<<Symbol("list"), Define("a", Integer(1)), Define("a", Integer(2)),
            Symbol("a")>>),
      App(<<Define("a", Integer(2)), Define("b", Symbol("a"))>>),
      App(<<Fn(<<"y">>, Define("c", Symbol("y"))), Define("b", Integer(1))>>) }

\* (define f (lambda (x) x)): a closure stored in the frame it captured.
ClosureForms == { Define("f", Fn(<<"x">>, Symbol("x"))) }

EdgeForms == ShortForms \cup LambdaForms \cup OrderForms \cup ClosureForms

EvalEdgeForm ==
    \E exp \in EdgeForms :
        /\ Len(hist) < MaxSteps
        /\ hist # <<>> => hist[Len(hist)].res.st \in {"Ok", "Err"}
        /\ LET r == eval(exp, 1, heap, MaxDepth)
           IN  /\ heap' = r.heap
               /\ hist' = Append(hist, [form |-> exp, env |-> 1, pre |-> heap,
                                        res |-> [st |-> r.st, val |-> r.val],
                                        log |-> r.log])
        /\ UNCHANGED call

NextEdge == EvalEdgeForm

EdgeSpec == Init /\ [][NextEdge]_vars

\* Every application of a lambda in log L supplied exactly as many
\* arguments as the lambda has parameters.
ArityRespected(L) ==
    \A k \in 1..Len(L) :
        (L[k].ev = "apply" /\ IsClosure(L[k].proc)) =>
            Len(L[k].args) = Len(L[k].proc.fn.params)

(* C12: eval never faults. Whatever the form, the empty list and define    *)
(* and lambda forms of fewer than three elements among them, when every    *)
(* lambda application supplies as many arguments as the lambda has         *)
(* parameters, eval returns Ok(value) or Err(error): it never panics.      *)
C12_EvalNeverFaults ==
    \A i \in 1..Len(hist) :
        ArityRespected(hist[i].log) => hist[i].res.st \in {"Ok", "Err"}

\* (lambda P B)
IsLambdaForm(e) ==
    /\ e.t = "List"
    /\ Len(e.elems) = 3
    /\ e.elems[1] = Symbol("lambda")

\* A List made only of Symbols.
IsSymbolList(P) ==
    /\ P.t = "List"
    /\ \A j \in 1..Len(P.elems) : P.elems[j].t = "Symbol"

(* C13: evaluating (lambda P B) returns a Callable only when P is a List   *)
(* of Symbols, and returns Err(Error("arguments are not a list")) whenever *)
(* P is anything else, a List holding an Integer or a nested List          *)
(* included.                                                               *)
C13_ParametersAreSymbols ==
    \A i \in 1..Len(hist) :
        IsLambdaForm(hist[i].form) =>
            IF IsSymbolList(hist[i].form.elems[2])
            THEN hist[i].res.st = "Ok" /\ IsClosure(hist[i].res.val)
            ELSE hist[i].res = Err(Error("arguments are not a list"))

\* A procedure application: a list that is no define or lambda form.
IsApplication(e) ==
    /\ e.t = "List"
    /\ e.elems # <<>>
    /\ ~is_definition(e.elems)
    /\ ~is_lambda(e.elems)

\* The steps the evaluation entered at position k0 of log L took itself, in
\* order, up to its own return: each evaluation it started, as the span
\* [from, to] of that evaluation's eval and return, and each other step at
\* its position. depth counts the evaluations started and not yet returned.
RECURSIVE OwnSteps(_, _, _, _, _)
OwnSteps(L, k, depth, from, acc) ==
    IF k > Len(L) THEN acc
    ELSE IF L[k].ev = "eval"
    THEN OwnSteps(L, k + 1, depth + 1, IF depth = 0 THEN k ELSE from, acc)
    ELSE IF L[k].ev = "return"
    THEN IF depth = 0 THEN acc
         ELSE OwnSteps(L, k + 1, depth - 1, from,
                       IF depth = 1
                       THEN Append(acc, [ev |-> "eval", from |-> from, to |-> k])
                       ELSE acc)
    ELSE OwnSteps(L, k + 1, depth, from,
                  IF depth = 0
                  THEN Append(acc, [ev |-> L[k].ev, from |-> k, to |-> k])
                  ELSE acc)

\* The position of the return of the evaluation entered at position k0.
RECURSIVE ReturnOf(_, _, _)
ReturnOf(L, k, depth) ==
    IF k > Len(L) THEN 0
    ELSE IF L[k].ev = "eval" THEN ReturnOf(L, k + 1, depth + 1)
    ELSE IF L[k].ev = "return"
    THEN IF depth = 0 THEN k ELSE ReturnOf(L, k + 1, depth - 1)
    ELSE ReturnOf(L, k + 1, depth)

\* The application entered at position k0 of log L, which returned: it
\* evaluated a prefix of its elements in order, each after its predecessor
\* succeeded; a failure ended it at once with that failure as its result;
\* and it applied the procedure, to the values in order, after and only
\* after every element had succeeded.
InOrderFailFast(L, k0) ==
    LET e == L[k0].exp
        steps == OwnSteps(L, k0 + 1, 0, 0, <<>>)
        done == ReturnOf(L, k0 + 1, 0)
        applied == {j \in 1..Len(steps) : steps[j].ev = "apply"}
        n == IF applied = {} THEN Len(steps)
             ELSE (CHOOSE j \in applied : \A m \in applied : j <= m) - 1
        value(j) == L[steps[j].to].res
    IN  /\ n >= 1
        /\ n <= Len(e.elems)
        /\ \A j \in 1..n :
              /\ steps[j].ev = "eval"
              /\ L[steps[j].from].exp = e.elems[j]
              /\ L[steps[j].from].env = L[k0].env
              /\ j < n => value(j).st = "Ok"
        /\ value(n).st = "Err" =>
              /\ applied = {}
              /\ done = steps[n].to + 1
              /\ L[done].res = value(n)
        /\ value(n).st = "Ok" =>
              /\ n = Len(e.elems)
              /\ applied # {}
              /\ L[steps[n + 1].from].proc = value(1).val
              /\ L[steps[n + 1].from].args = [j \in 1..(n - 1) |-> value(j + 1).val]
              /\ L[steps[n + 1].from].env = L[k0].env

(* C14: in a procedure application the operator is evaluated first, then   *)
(* each argument from left to right, and the procedure is applied only     *)
(* after all of them succeeded; when one of these evaluations fails, the   *)
(* application returns that failure and evaluates nothing more: no later   *)
(* argument's define happens and no procedure body is run. Frames change   *)
(* only through the defines that were evaluated.                           *)
C14_OperatorThenArgumentsInOrder ==
    \A i \in 1..Len(hist) :
        LET L == hist[i].log
        IN  hist[i].res.st \in {"Ok", "Err"} =>
                /\ \A k \in 1..Len(L) :
                      (L[k].ev = "eval" /\ IsApplication(L[k].exp)) =>
                          InOrderFailFast(L, k)
                /\ DefinesAreLocal(i)

\* C14's case: (list (define a 1) (1) (define b 2)) has failed on (1), after
\* a was bound to 1, and b, unbound before, is unbound still.
C14_Witness ==
    \E i \in 1..Len(hist) :
        /\ hist[i].form = App(<<Symbol("list"), Define("a", Integer(1)),
                                App(<<Integer(1)>>), Define("b", Integer(2))>>)
        /\ "a" \notin DOMAIN hist[i].pre[1].entries
        /\ hist[i].res = Err(Error("cannot call non-function"))
        /\ get(Post(i), 1, "a") = Integer(1)
        /\ "b" \notin DOMAIN Post(i)[1].entries

\* The positions of the Symbols among parameters, in order.
RECURSIVE SymbolPositions(_, _)
SymbolPositions(parameters, i) ==
    IF i > Len(parameters) THEN <<>>
    ELSE (IF parameters[i].t = "Symbol" THEN <<i>> ELSE <<>>)
           \o SymbolPositions(parameters, i + 1)

\* The writes of log L to frame f, in order: parameters bound and names
\* defined in it.
WritesTo(L, f) ==
    {k \in 1..Len(L) : \/ (L[k].ev = "bind" /\ L[k].frame = f)
                       \/ (L[k].ev = "define" /\ L[k].env = f)}

\* The application of a lambda at position k of the log of the i-th form:
\* it made one frame, new, under the captured environment, bound there each
\* parameter name to the argument at its position, and evaluated the body
\* there; the frame holds afterwards what was bound and defined in it, and
\* nothing else.
OneFramePerApplication(i, k) ==
    LET L == hist[i].log
        fn == L[k].proc.fn
        f == L[k + 1].frame
        at == SymbolPositions(fn.params, 1)
        writes == WritesTo(L, f)
    IN  /\ L[k + 1].ev = "frame"
        /\ f > Len(hist[i].pre)
        /\ f <= Len(Post(i))
        /\ L[k + 1].parent = fn.env
        /\ Post(i)[f].parent = fn.env
        /\ \A m \in 1..Len(at) :
              L[k + 1 + m] = [ev |-> "bind", frame |-> f,
                              name |-> fn.params[at[m]].name,
                              val |-> L[k].args[at[m]]]
        /\ {m \in 1..Len(L) : L[m].ev = "bind" /\ L[m].frame = f}
              = (k + 2)..(k + 1 + Len(at))
        /\ L[k + 2 + Len(at)] = [ev |-> "eval", env |-> f, exp |-> fn.body[1]]
        /\ DOMAIN Post(i)[f].entries = {L[m].name : m \in writes}
        /\ \A m \in writes :
              (\A later \in writes : later > m => L[later].name # L[m].name) =>
                  Post(i)[f].entries[L[m].name] = L[m].val

(* C15: each application of a lambda creates exactly one new child frame,  *)
(* whose parent is the lambda's captured environment and which starts      *)
(* empty, binds the i-th parameter name to the i-th argument in that frame *)
(* only, and evaluates the body there; making a lambda creates no frame,   *)
(* so that frames are created by applications alone and each application  *)
(* has a frame of its own; and the frames that were there before,          *)
(* the captured and the caller's environment among them, keep their        *)
(* parent and change only where a define was evaluated in them.            *)
C15_OneFramePerApplication ==
    \A i \in 1..Len(hist) :
        LET L == hist[i].log
            pre == hist[i].pre
            applications == {k \in 1..Len(L) : L[k].ev = "apply" /\ IsClosure(L[k].proc)}
            frames == {k \in 1..Len(L) : L[k].ev = "frame"}
        IN  /\ \A k \in applications : OneFramePerApplication(i, k)
            /\ frames = {k + 1 : k \in applications}
            /\ \A k, m \in frames : k # m => L[k].frame # L[m].frame
            /\ Len(Post(i)) = Len(pre) + Cardinality(applications)
            /\ \A f \in 1..Len(pre) :
                  /\ Post(i)[f].parent = pre[f].parent
                  /\ Post(i)[f] # pre[f] =>
                        \E k \in 1..Len(L) : L[k].ev = "define" /\ L[k].env = f
            /\ (/\ hist[i].form = App(<<Fn(<<"y", "z">>,
                                           App(<<Symbol("-"), Symbol("y"), Symbol("z")>>)),
                                        Integer(2), Integer(1)>>)
                /\ get(pre, 1, "-") = Callable(Native("-")))
                   => hist[i].res = Ok(Integer(1))

\* C15's case: the closure g, whose parameter is y, was applied twice from
\* the root; each application made a frame of its own under the frame g
\* captured, holding y alone, and the root frame did not change.
C15_Witness ==
    /\ Len(hist) = 3
    /\ hist[2].form = App(<<Symbol("g"), Integer(2)>>)
    /\ hist[3].form = App(<<Symbol("g"), Integer(2)>>)
    /\ IsClosure(get(hist[2].pre, 1, "g"))
    /\ hist[2].res = Ok(Integer(3))
    /\ hist[3].res = Ok(Integer(3))
    /\ Len(heap) = Len(hist[3].pre) + 1
    /\ Len(hist[3].pre) = Len(hist[2].pre) + 1
    /\ heap[Len(heap)] = [parent |-> get(hist[2].pre, 1, "g").fn.env,
                          entries |-> [n \in {"y"} |-> Integer(2)]]
    /\ heap[Len(heap) - 1] = heap[Len(heap)]
    /\ heap[1] = hist[2].pre[1]

\* The environments an object holds a counted reference to: the captured
\* environment of a Lambda, and those of the items of a List.
RECURSIVE Captured(_)
Captured(o) ==
    IF o.t = "Callable" THEN (IF o.fn.k = "Lambda" THEN {o.fn.env} ELSE {})
    ELSE IF o.t = "List" THEN UNION {Captured(o.elems[j]) : j \in 1..Len(o.elems)}
    ELSE {}

\* The frames frame f of heap h owns a reference to: its parent, and what
\* the objects of its local mapping capture.
Owns(h, f) ==
    (IF h[f].parent = 0 THEN {} ELSE {h[f].parent})
      \cup UNION {Captured(h[f].entries[n]) : n \in DOMAIN h[f].entries}

\* The frames reached from the frames of S along at most n more edges.
RECURSIVE OwnedWithin(_, _, _)
OwnedWithin(h, S, n) ==
    IF n = 0 THEN S
    ELSE OwnedWithin(h, S \cup UNION {Owns(h, g) : g \in S}, n - 1)

(* C16: the ownership graph of the frames, with an edge from each frame to *)
(* its parent and to the captured environment of every Lambda stored in    *)
(* its local mapping, has no cycle in any reachable state: no frame is     *)
(* reached from the frames it owns.                                        *)
C16_NoOwnershipCycle ==
    \A f \in 1..Len(heap) : f \notin OwnedWithin(heap, Owns(heap, f), Len(heap))

\* The forms of Forms nest far less deep than MaxDepth: no evaluation runs
\* out of stack.
StackSuffices == \A i \in 1..Len(hist) : hist[i].res.st # "StackOverflow"

====
